---- MODULE Spec2Model ----
(***************************************************************************)
(* Model of the spotify-alarm scheduling and shared-state engine:          *)
(* src/src/alarm.rs (Alarm, parse_time, should_play_on, run_scheduler),    *)
(* src/src/state.rs (AppState and its mutators), src/src/web/routes.rs     *)
(* (the API handlers) and src/src/main.rs (the supervisor task).           *)
(*                                                                         *)
(* Strings the code inspects character by character (alarm times, weekday  *)
(* tags) are tuples of one-character strings; strings the code only copies *)
(* (alarm names) are TLA+ strings.                                         *)
(***************************************************************************)
EXTENDS Integers, Sequences, FiniteSets, TLC

\* ------------------------------------------------------------------ bounds
\* Days the clock runs into: 0 .. MaxDay (day 0 is a Monday).
MaxDay == 1
\* Longest alarm list the API may grow the Config to.
MaxAlarms == 2

\* ----------------------------------------------------------- text helpers
Digits == <<"0", "1", "2", "3", "4", "5", "6", "7", "8", "9">>

IsDigit(c) == \E i \in 1..10 : Digits[i] = c

DigitVal(c) == (CHOOSE i \in 1..10 : Digits[i] = c) - 1

Upper == <<"A","B","C","D","E","F","G","H","I","J","K","L","M",
           "N","O","P","Q","R","S","T","U","V","W","X","Y","Z">>

Lower == <<"a","b","c","d","e","f","g","h","i","j","k","l","m",
           "n","o","p","q","r","s","t","u","v","w","x","y","z">>

\* u8::to_ascii_lowercase
ToAsciiLower(c) ==
    IF \E i \in 1..26 : Upper[i] = c
    THEN Lower[CHOOSE i \in 1..26 : Upper[i] = c]
    ELSE c

\* str::eq_ignore_ascii_case
eq_ignore_ascii_case(a, b) ==
    /\ Len(a) = Len(b)
    /\ \A i \in 1..Len(a) : ToAsciiLower(a[i]) = ToAsciiLower(b[i])

\* str::split(':').collect(): the pieces between the separators.
RECURSIVE SplitFrom(_, _, _)
SplitFrom(s, i, cur) ==
    IF i > Len(s) THEN <<cur>>
    ELSE IF s[i] = ":" THEN <<cur>> \o SplitFrom(s, i + 1, <<>>)
    ELSE SplitFrom(s, i + 1, Append(cur, s[i]))

Split(s) == SplitFrom(s, 1, <<>>)

RECURSIVE DigitsValue(_, _)
DigitsValue(s, acc) ==
    IF s = <<>> THEN acc
    ELSE DigitsValue(Tail(s), acc * 10 + DigitVal(Head(s)))

\* str::parse::<u32>: an optional leading "+", then one or more decimal
\* digits.  -1 stands for Err.  (The overflow error needs more than nine
\* digits; the time strings of the model have at most five characters.)
ParseU32(s) ==
    LET body == IF s # <<>> /\ Head(s) = "+" THEN Tail(s) ELSE s
    IN  IF body = <<>> \/ \E i \in 1..Len(body) : ~IsDigit(body[i])
        THEN -1
        ELSE DigitsValue(body, 0)

\* Option<T>: None is the empty tuple, Some(x) the tuple <<x>>.
NoneOpt == <<>>

Some(x) == <<x>>

\* --------------------------------------------------------------- Alarm
ErrTime == <<-1, -1>>

\* from_hms_opt without the range check.
from_hms_opt_unchecked(hour, minute) == <<hour, minute>>

\* NaiveTime::from_hms_opt(hour, minute, 0)
from_hms_opt(hour, minute) ==
    IF hour < 24 /\ minute < 60 THEN <<hour, minute>> ELSE ErrTime

\* Alarm::parse_time on the alarm's time string: <<hour, minute>> or ErrTime.
parse_time(time) ==
    LET parts == Split(time)
    IN  IF Len(parts) # 2 THEN ErrTime
        ELSE LET hour == ParseU32(parts[1])
                 minute == ParseU32(parts[2])
             IN  IF hour = -1 \/ minute = -1 THEN ErrTime
                 ELSE from_hms_opt(hour, minute)

\* chrono::Weekday, numbered from Monday.
Weekdays == 0..6

\* format!("{:?}", weekday)
WeekdayDebug(w) ==
    CASE w = 0 -> <<"M","o","n">>
      [] w = 1 -> <<"T","u","e">>
      [] w = 2 -> <<"W","e","d">>
      [] w = 3 -> <<"T","h","u">>
      [] w = 4 -> <<"F","r","i">>
      [] w = 5 -> <<"S","a","t">>
      [] w = 6 -> <<"S","u","n">>

\* Alarm::should_play_on
should_play_on(days, weekday) ==
    IF days = <<>> THEN TRUE
    ELSE LET weekday_str == WeekdayDebug(weekday)
         IN  \E i \in 1..Len(days) :
                \/ eq_ignore_ascii_case(days[i], weekday_str)
                \/ eq_ignore_ascii_case(days[i], SubSeq(weekday_str, 1, 3))

\* ------------------------------------------------------------ AppState
\* AppState::add_alarm
add_alarm(cfg, alarm) == [cfg EXCEPT !.alarms = Append(@, alarm)]

\* The mutators below take the index counted from 0, as the code does, and
\* give [ok, cfg]: ok is FALSE for Err(..), and cfg the Config afterwards.

\* update_alarm pushing the alarm when the index is out of range.
update_alarm_push(cfg, index, alarm) ==
    IF index >= Len(cfg.alarms)
    THEN [ok |-> TRUE, cfg |-> [cfg EXCEPT !.alarms = Append(@, alarm)]]
    ELSE [ok |-> TRUE, cfg |-> [cfg EXCEPT !.alarms[index + 1] = alarm]]

\* AppState::update_alarm
update_alarm(cfg, index, alarm) ==
    IF index >= Len(cfg.alarms) THEN [ok |-> FALSE, cfg |-> cfg]
    ELSE [ok |-> TRUE, cfg |-> [cfg EXCEPT !.alarms[index + 1] = alarm]]

\* delete_alarm removing the last alarm (Vec::pop) whatever the index.
delete_alarm_pop(cfg, index) ==
    IF index >= Len(cfg.alarms) THEN [ok |-> FALSE, cfg |-> cfg]
    ELSE [ok |-> TRUE,
          cfg |-> [cfg EXCEPT !.alarms = SubSeq(@, 1, Len(@) - 1)]]

\* AppState::delete_alarm (Vec::remove)
delete_alarm(cfg, index) ==
    IF index >= Len(cfg.alarms) THEN [ok |-> FALSE, cfg |-> cfg]
    ELSE [ok |-> TRUE,
          cfg |-> [cfg EXCEPT !.alarms =
                     SubSeq(@, 1, index) \o SubSeq(@, index + 2, Len(@))]]

\* toggle_alarm switching the alarm off instead of flipping it.
toggle_alarm_off(cfg, index) ==
    IF index >= Len(cfg.alarms) THEN [ok |-> FALSE, cfg |-> cfg]
    ELSE [ok |-> TRUE, cfg |-> [cfg EXCEPT !.alarms[index + 1].enabled = FALSE]]

\* AppState::toggle_alarm
toggle_alarm(cfg, index) ==
    IF index >= Len(cfg.alarms) THEN [ok |-> FALSE, cfg |-> cfg]
    ELSE [ok |-> TRUE, cfg |-> [cfg EXCEPT !.alarms[index + 1].enabled = ~@]]

\* ------------------------------------------------------------- the clock
\* The minutes of a day the model observes: every time of day an alarm of
\* the model names.  In the other minutes no alarm is due and a tick changes
\* nothing.
DayMinutes == << <<7, 0>>, <<7, 1>>, <<8, 0>> >>

\* A clock reading (Local::now()): the day and the position in DayMinutes.
HourMinute(t) == DayMinutes[t.idx]

\* now.weekday(); day 0 is a Monday.
Weekday(t) == t.day % 7

ClockStart == [day |-> 0, idx |-> 1]

\* The last reading of a behaviour: the minute after the first alarm minute
\* of day MaxDay, when what the loop made of that minute is settled.
ClockEnd == [day |-> MaxDay, idx |-> 2]

NextClock(t) ==
    IF t.idx < Len(DayMinutes) THEN [t EXCEPT !.idx = @ + 1]
    ELSE [day |-> t.day + 1, idx |-> 1]

\* ---------------------------------------------------------------- inputs
T0700 == <<"0", "7", ":", "0", "0">>

T7c1 == <<"7", ":", "1">>

T0800 == <<"0", "8", ":", "0", "0">>

T2500 == <<"2", "5", ":", "0", "0">>

AlarmA == [name |-> "A", time |-> T0700, days |-> <<>>, enabled |-> TRUE]

AlarmB == [name |-> "B", time |-> T0700, days |-> << <<"T", "U", "E">> >>,
           enabled |-> TRUE]

AlarmC == [name |-> "C", time |-> T7c1, days |-> <<>>, enabled |-> TRUE]

AlarmE == [name |-> "E", time |-> T0800, days |-> <<>>, enabled |-> FALSE]

AlarmX == [name |-> "X", time |-> T2500, days |-> <<>>, enabled |-> TRUE]

\* An alarm without a name.
AlarmN == [name |-> "", time |-> T0800, days |-> <<>>, enabled |-> TRUE]

\* An alarm whose days hold a tag that names no weekday.
AlarmF == [name |-> "F", time |-> T0700, days |-> << <<"F", "o", "o">> >>,
           enabled |-> TRUE]

\* The time strings and the days lists of the model's alarms.
TimeStrings == {T0700, T7c1, T0800, T2500}

DaysLists == {<<>>, << <<"T", "U", "E">> >>, << <<"F", "o", "o">> >>}

\* parse_time and should_play_on tabulated over them, each evaluated once.
ParseTable == [t \in TimeStrings |-> parse_time(t)]

PlayOnTable == [d \in DaysLists |-> [w \in Weekdays |-> should_play_on(d, w)]]

\* alarm.parse_time()
alarm_parse_time(alarm) == ParseTable[alarm.time]

\* alarm.should_play_on(weekday)
alarm_should_play_on(alarm, weekday) == PlayOnTable[alarm.days][weekday]

\* TimeMatch comparing the minutes only.
TimeMatchMinuteOnly(current, alarm_time) == current[2] = alarm_time[2]

\* Lines 196-218 of the scan: whether the loop body reaches the playback
\* call for this alarm at the tick's weekday and <<hour, minute>>.
TimeMatch(current, alarm_time) ==
    LET hour_match == current[1] = alarm_time[1]
        minute_match == current[2] = alarm_time[2]
    IN  hour_match /\ minute_match

is_due(alarm, weekday, hm) ==
    /\ alarm.enabled
    /\ alarm_should_play_on(alarm, weekday)
    /\ alarm_parse_time(alarm) # ErrTime
    /\ TimeMatch(hm, alarm_parse_time(alarm))

\* Scan without the break of line 241: the last due alarm wins.
RECURSIVE ScanLast(_, _, _, _)
ScanLast(alarms, i, weekday, hm) ==
    IF i > Len(alarms) THEN 0
    ELSE LET later == ScanLast(alarms, i + 1, weekday, hm)
         IN  IF later # 0 THEN later
             ELSE IF /\ alarms[i].enabled
                     /\ alarm_should_play_on(alarms[i], weekday)
                     /\ alarm_parse_time(alarms[i]) = hm
                  THEN i ELSE 0

\* Scan giving up at the first alarm whose time does not parse (the error
\* propagated with `?` instead of `continue`).
RECURSIVE ScanAbort(_, _, _, _)
ScanAbort(alarms, i, weekday, hm) ==
    IF i > Len(alarms) THEN 0
    ELSE IF ~alarms[i].enabled THEN ScanAbort(alarms, i + 1, weekday, hm)
    ELSE IF ~alarm_should_play_on(alarms[i], weekday)
         THEN ScanAbort(alarms, i + 1, weekday, hm)
    ELSE IF alarm_parse_time(alarms[i]) = ErrTime THEN 0
    ELSE IF TimeMatch(hm, alarm_parse_time(alarms[i])) THEN i
    ELSE ScanAbort(alarms, i + 1, weekday, hm)

\* The for loop over the snapshot from position i on: the position of the
\* alarm whose body reaches the playback call and breaks, 0 when the loop
\* runs to its end.
RECURSIVE Scan(_, _, _, _)
Scan(alarms, i, weekday, hm) ==
    IF i > Len(alarms) THEN 0
    ELSE IF ~alarms[i].enabled THEN Scan(alarms, i + 1, weekday, hm)
    ELSE IF ~alarm_should_play_on(alarms[i], weekday)
         THEN Scan(alarms, i + 1, weekday, hm)
    ELSE IF alarm_parse_time(alarms[i]) = ErrTime
         THEN Scan(alarms, i + 1, weekday, hm)
    ELSE IF TimeMatch(hm, alarm_parse_time(alarms[i])) THEN i
    ELSE Scan(alarms, i + 1, weekday, hm)

MkConfig(alarms) == [alarms |-> alarms, audio_device |-> "default"]

\* The Config files the process is started on (AlarmConfig::load does not
\* validate the times).
InitConfigs == {MkConfig(<<AlarmB, AlarmA>>), MkConfig(<<AlarmX, AlarmE>>)}

\* The alarms API requests carry.
ReqAlarms == {AlarmC, AlarmX}

\* The alarms API requests carry when the handlers are checked on their own.
ApiReqAlarms == {AlarmC, AlarmX, AlarmN, AlarmF}

\* The API mutator requests of one behaviour, one task each.
Clients == {1, 2}

NoReq == [op |-> "none", index |-> 0, alarm |-> AlarmC]

\* ----------------------------------------------------------------- state
VARIABLES
    config,                   \* AppState.config
    last_alarm_trigger,       \* AppState.last_alarm_trigger
    disk,                     \* the file at AppState.config_path
    lock_writer,              \* RwLock: the client holding the write guard
    lock_readers,             \* RwLock: 1 when API readers hold read guards
    clock,                    \* Local::now()
    sup,                      \* the task spawned in main: "running" | "dead"
    proc,                     \* the process: "up" | "aborted"
    pc,                       \* run_scheduler's position
    now,                      \* run_scheduler: now
    last_played_hour_minute,  \* run_scheduler: last_played_hour_minute
    alarms,                   \* run_scheduler: the snapshot being played from
    fidx,                     \* run_scheduler: position of the alarm playing
    sched_guard,              \* run_scheduler: state_guard, "none" | "read"
    in_flight,                \* spotify::play calls that have not returned
    cpc,                      \* per request: idle|wait|hold|save|done
    creq,                     \* per request: what it asks for
    resp,                     \* the status code of the last answer
    last_save_ok,             \* history: the last save_config returned Ok
    serial,                   \* history: the mutators applied one after another
    stillReads,               \* history: a playback returned in this minute
    lastOutcome,              \* history: outcome of the last playback returned
    invThis,                  \* history: invocations made for the minute `now`
    ticked,                   \* history: a tick read the clock this minute
    dueAll,                   \* history: an alarm was due all this minute
    busy,                     \* history: playback was awaited at minute entry
    p_days,                   \* should_play_on: self.days
    p_weekday,                \* should_play_on: weekday
    p_result                  \* should_play_on: the value returned

vars == <<config, last_alarm_trigger, disk, lock_writer, lock_readers, clock,
          sup, proc, pc, now, last_played_hour_minute, alarms, fidx,
          cpc, creq, resp, last_save_ok,
          sched_guard, in_flight,
          serial, stillReads, lastOutcome, invThis, ticked, dueAll, busy,
          p_days, p_weekday, p_result>>

pureVars == <<p_days, p_weekday, p_result>>

schedVars == <<pc, now, last_played_hour_minute, alarms, fidx, sched_guard,
               in_flight>>

apiVars == <<cpc, creq, resp, last_save_ok>>

\* Some alarm of the list is due at clock reading t.
ExistsDue(list, t) ==
    \E i \in 1..Len(list) : is_due(list[i], Weekday(t), HourMinute(t))

\* The state main builds (lines 71-99) from the Config it loaded.
InitState(cfg) ==
    /\ config = cfg
    /\ disk = config
    /\ last_alarm_trigger = NoneOpt
    /\ lock_writer = NoneOpt
    /\ lock_readers = 0
    /\ clock = ClockStart
    /\ sup = "running"
    /\ proc = "up"
    /\ pc = "start"
    /\ now = ClockStart
    /\ last_played_hour_minute = NoneOpt
    /\ alarms = <<>>
    /\ fidx = 0
    /\ sched_guard = "none"
    /\ in_flight = 0
    /\ cpc = [c \in Clients |-> "idle"]
    /\ creq = [c \in Clients |-> NoReq]
    /\ resp = 0
    /\ last_save_ok = TRUE
    /\ serial = config
    /\ stillReads = FALSE
    /\ lastOutcome = "none"
    /\ invThis = 0
    /\ ticked = FALSE
    /\ dueAll = ExistsDue(config.alarms, ClockStart)
    /\ busy = FALSE

Init ==
    /\ \E cfg \in InitConfigs : InitState(cfg)
    /\ p_days = <<>>
    /\ p_weekday = 0
    /\ p_result = NoneOpt

Alive == proc = "up" /\ sup = "running"

\* ------------------------------------------------------- run_scheduler
\* Lines 150-171: the start-up listing under a read guard, and the marker.
SchedStart ==
    /\ Alive /\ pc = "start"
    /\ lock_writer = NoneOpt
    /\ last_played_hour_minute' = NoneOpt
    /\ pc' = "tick"
    /\ UNCHANGED <<config, last_alarm_trigger, disk, lock_writer, lock_readers,
                   clock, sup, proc, now, alarms, fidx, sched_guard,
                   in_flight>>
    /\ UNCHANGED apiVars
    /\ UNCHANGED <<serial, stillReads, lastOutcome, invThis, ticked, dueAll,
                   busy>>
    /\ UNCHANGED pureVars

\* Line 180: the minute of this tick is the one recorded.
AlreadyChecked(marker, t) == marker = Some(HourMinute(t))

\* Lines 174-184: read the clock; sleep when the minute is the recorded one.
Tick ==
    /\ Alive /\ pc = "tick"
    /\ now' = clock
    /\ pc' = IF AlreadyChecked(last_played_hour_minute, clock)
             THEN "sleep" ELSE "read"
    /\ invThis' = IF clock = now THEN invThis ELSE 0
    /\ ticked' = TRUE
    /\ UNCHANGED <<config, last_alarm_trigger, disk, lock_writer, lock_readers,
                   clock, sup, proc, last_played_hour_minute, alarms, fidx,
                   sched_guard, in_flight>>
    /\ UNCHANGED apiVars
    /\ UNCHANGED <<serial, stillReads, lastOutcome, dueAll, busy>>
    /\ UNCHANGED pureVars

\* DropGuard keeping the guard alive past the block.
KeepGuard(guard) == guard

\* Line 193: the block the guard was taken in ends and the guard is dropped.
DropGuard(guard) == "none"

\* The loop's position after a call of spotify::play that is not awaited
\* (the future spawned as a task of its own): on to the sleep of line 246.
InvokedDetached == "sleep"

\* Line 222, play(..).await: the loop stays at the call until it returns.
Invoked == "playing"

\* Lines 187-222: take a read guard (state.read().await returns once no
\* write guard is held), clone the alarms, drop the guard at the end of the
\* block, scan the clone, and call spotify::play for the first alarm that
\* is due.  Nothing is awaited between taking the guard and dropping it, so
\* the task is never suspended holding it and the three are one step.
Snapshot ==
    /\ Alive /\ pc = "read"
    /\ lock_writer = NoneOpt
    /\ sched_guard' = DropGuard("read")
    /\ LET snap == config.alarms
           k == Scan(snap, 1, Weekday(now), HourMinute(now))
       IN  IF k = 0
           THEN /\ pc' = "sleep"
                /\ UNCHANGED <<alarms, fidx, invThis, in_flight>>
           ELSE /\ pc' = Invoked
                /\ alarms' = snap
                /\ fidx' = k
                /\ invThis' = invThis + 1
                /\ in_flight' = in_flight + 1
    /\ UNCHANGED <<config, last_alarm_trigger, disk, lock_writer, lock_readers,
                   clock, sup, proc, now, last_played_hour_minute>>
    /\ UNCHANGED apiVars
    /\ UNCHANGED <<serial, stillReads, lastOutcome, ticked, dueAll, busy>>
    /\ UNCHANGED pureVars

\* NextMarker with the assignment of line 240 left out.
NextMarkerStale(outcome, t) == last_played_hour_minute

\* NextMarker with the assignment of line 240 moved into the Ok arm.
NextMarkerOkOnly(outcome, t) ==
    IF outcome = "ok" THEN Some(HourMinute(t)) ELSE last_played_hour_minute

\* Line 240: the marker after a playback call that returned.
NextMarker(outcome, t) == Some(HourMinute(t))

\* TriggerWrite storing the whole state it cloned at the snapshot.
TriggerWriteSnapshot(name, t) ==
    IF lock_writer = NoneOpt /\ lock_readers = 0 /\ sched_guard = "none"
    THEN /\ last_alarm_trigger' = Some(<<name, t>>)
         /\ config' = [config EXCEPT !.alarms = alarms]
    ELSE UNCHANGED <<last_alarm_trigger, config>>

\* TriggerWrite waiting for the guard instead of trying once: the last
\* trigger is recorded whoever holds a guard at the time.
TriggerWriteAlways(name, t) ==
    /\ last_alarm_trigger' = Some(<<name, t>>)
    /\ UNCHANGED config

\* Lines 229-231: state.try_write() succeeds when no guard is held; only
\* then is the last trigger recorded.
TriggerWrite(name, t) ==
    IF lock_writer = NoneOpt /\ lock_readers = 0 /\ sched_guard = "none"
    THEN /\ last_alarm_trigger' = Some(<<name, t>>)
         /\ UNCHANGED config
    ELSE UNCHANGED <<last_alarm_trigger, config>>

\* Lines 222-241 and 246, playback returned Ok.
PlayOk ==
    /\ Alive /\ pc = "playing"
    /\ TriggerWrite(alarms[fidx].name, now)
    /\ last_played_hour_minute' = NextMarker("ok", now)
    /\ pc' = "sleep"
    /\ lastOutcome' = "ok"
    /\ stillReads' = (HourMinute(clock) = HourMinute(now))
    /\ in_flight' = in_flight - 1
    /\ UNCHANGED <<disk, lock_writer, lock_readers, clock, sup, proc, now,
                   alarms, fidx, sched_guard>>
    /\ UNCHANGED apiVars
    /\ UNCHANGED <<serial, invThis, ticked, dueAll, busy>>
    /\ UNCHANGED pureVars

\* PlayErr recording the trigger as the Ok arm does.
PlayErrRecorded ==
    /\ Alive /\ pc = "playing"
    /\ last_played_hour_minute' = NextMarker("err", now)
    /\ pc' = "sleep"
    /\ lastOutcome' = "err"
    /\ stillReads' = (HourMinute(clock) = HourMinute(now))
    /\ in_flight' = in_flight - 1
    /\ TriggerWrite(alarms[fidx].name, now)
    /\ UNCHANGED <<disk, lock_writer, lock_readers, clock, sup, proc, now,
                   alarms, fidx, sched_guard>>
    /\ UNCHANGED apiVars
    /\ UNCHANGED <<serial, invThis, ticked, dueAll, busy>>
    /\ UNCHANGED pureVars

\* Lines 233-241 and 246, playback returned Err.
PlayErr ==
    /\ Alive /\ pc = "playing"
    /\ last_played_hour_minute' = NextMarker("err", now)
    /\ pc' = "sleep"
    /\ lastOutcome' = "err"
    /\ stillReads' = (HourMinute(clock) = HourMinute(now))
    /\ in_flight' = in_flight - 1
    /\ UNCHANGED <<config, last_alarm_trigger, disk, lock_writer, lock_readers,
                   clock, sup, proc, now, alarms, fidx, sched_guard>>
    /\ UNCHANGED apiVars
    /\ UNCHANGED <<serial, invThis, ticked, dueAll, busy>>
    /\ UNCHANGED pureVars

\* What a panic inside the task spawned at main.rs:83 leaves behind.  The
\* supervisor loop runs in the same task as run_scheduler, so the unwinding
\* ends the task; under panic = "abort" the process ends.
PanicOutcomes == {"up", "aborted"}

\* spotify::play panics (an unwrap at spotify.rs:119-136, the expect at
\* spotify.rs:61).
PlayPanic ==
    /\ Alive /\ pc = "playing"
    /\ pc' = "dead"
    /\ sup' = "dead"
    /\ proc' \in PanicOutcomes
    /\ lastOutcome' = "panic"
    /\ sched_guard' = "none"
    /\ in_flight' = in_flight - 1
    /\ UNCHANGED <<config, last_alarm_trigger, disk, lock_writer, lock_readers,
                   clock, now, last_played_hour_minute, alarms, fidx>>
    /\ UNCHANGED apiVars
    /\ UNCHANGED <<serial, stillReads, invThis, ticked, dueAll,
                   busy>>
    /\ UNCHANGED pureVars

\* Lines 181 and 246: sleep(1 s), then the next iteration; the snapshot of
\* the iteration goes out of scope.
Sleep ==
    /\ Alive /\ pc = "sleep"
    /\ pc' = "tick"
    /\ alarms' = <<>>
    /\ fidx' = 0
    /\ UNCHANGED <<config, last_alarm_trigger, disk, lock_writer, lock_readers,
                   clock, sup, proc, now, last_played_hour_minute,
                   sched_guard, in_flight>>
    /\ UNCHANGED apiVars
    /\ UNCHANGED <<serial, stillReads, lastOutcome, invThis, ticked, dueAll,
                   busy>>
    /\ UNCHANGED pureVars

\* The loop sleeps one second between ticks and holds a guard only to clone
\* the alarms: unless it is awaiting a playback, it completes a tick in every
\* minute.
TickDone ==
    \/ pc = "playing"
    \/ ~Alive
    \/ ticked /\ pc \in {"sleep", "tick"}

\* The wall clock passes into the next observed minute.
ClockAdvance ==
    /\ proc = "up"
    /\ TickDone
    /\ clock # ClockEnd
    /\ clock' = NextClock(clock)
    /\ stillReads' = FALSE
    /\ ticked' = FALSE
    /\ dueAll' = ExistsDue(config.alarms, NextClock(clock))
    /\ busy' = (pc = "playing")
    /\ UNCHANGED <<config, last_alarm_trigger, disk, lock_writer, lock_readers,
                   sup, proc>>
    /\ UNCHANGED schedVars
    /\ UNCHANGED apiVars
    /\ UNCHANGED <<serial, lastOutcome, invThis>>
    /\ UNCHANGED pureVars

\* ------------------------------------------------------------ the API
\* Creates accepted and not yet applied (keeps the list within MaxAlarms).
PendingCreates == Cardinality({c \in Clients : creq[c].op = "create"})

\* A request is answered without touching the state.
Reject(c, code) ==
    /\ resp' = code
    /\ cpc' = [cpc EXCEPT ![c] = "done"]
    /\ UNCHANGED <<creq, last_save_ok>>

\* A request goes on to state.write().await.
Accept(c, req) ==
    /\ cpc' = [cpc EXCEPT ![c] = "wait"]
    /\ creq' = [creq EXCEPT ![c] = req]
    /\ UNCHANGED <<resp, last_save_ok>>

apiFrame ==
    /\ UNCHANGED pureVars
    /\ UNCHANGED <<config, last_alarm_trigger, disk, lock_writer, lock_readers,
                   clock, sup, proc>>
    /\ UNCHANGED schedVars
    /\ UNCHANGED <<serial, stillReads, lastOutcome, invThis, ticked, dueAll,
                   busy>>

\* routes::create_alarm, lines 47-57, for a request body drawn from bodies:
\* the time is validated first, and nothing else is.
create_alarm_request(c, bodies) ==
    /\ proc = "up" /\ cpc[c] = "idle"
    /\ Len(config.alarms) + PendingCreates < MaxAlarms
    /\ \E a \in bodies :
          IF alarm_parse_time(a) = ErrTime
          THEN Reject(c, 400)
          ELSE Accept(c, [op |-> "create", index |-> 0, alarm |-> a])
    /\ apiFrame

\* routes::update_alarm, lines 75-86, for a request body drawn from bodies.
update_alarm_request(c, bodies) ==
    /\ proc = "up" /\ cpc[c] = "idle"
    /\ \E a \in bodies, i \in 0..MaxAlarms :
          IF alarm_parse_time(a) = ErrTime
          THEN Reject(c, 400)
          ELSE Accept(c, [op |-> "update", index |-> i, alarm |-> a])
    /\ apiFrame

CreateRequest(c) == create_alarm_request(c, ReqAlarms)

UpdateRequest(c) == update_alarm_request(c, ReqAlarms)

\* The same handlers with the wider request bodies.
CreateAnyRequest(c) == create_alarm_request(c, ApiReqAlarms)

UpdateAnyRequest(c) == update_alarm_request(c, ApiReqAlarms)

\* routes::delete_alarm up to line 114.
DeleteRequest(c) ==
    /\ proc = "up" /\ cpc[c] = "idle"
    /\ \E i \in 0..MaxAlarms :
          Accept(c, [op |-> "delete", index |-> i, alarm |-> AlarmC])
    /\ apiFrame

\* routes::toggle_alarm up to line 140.
ToggleRequest(c) ==
    /\ proc = "up" /\ cpc[c] = "idle"
    /\ \E i \in 0..MaxAlarms :
          Accept(c, [op |-> "toggle", index |-> i, alarm |-> AlarmC])
    /\ apiFrame

\* AcquireWrite going on without the guard.
AcquireWriteSkipped(c) ==
    /\ proc = "up" /\ cpc[c] = "wait"
    /\ cpc' = [cpc EXCEPT ![c] = "hold"]
    /\ UNCHANGED <<config, last_alarm_trigger, disk, lock_writer, lock_readers,
                   clock, sup, proc, creq, resp, last_save_ok>>
    /\ UNCHANGED schedVars
    /\ UNCHANGED <<serial, stillReads, lastOutcome, invThis, ticked, dueAll,
                   busy>>
    /\ UNCHANGED pureVars

\* state.write().await returns: no other guard is held.
AcquireWrite(c) ==
    /\ proc = "up" /\ cpc[c] = "wait"
    /\ lock_writer = NoneOpt /\ lock_readers = 0 /\ sched_guard = "none"
    /\ lock_writer' = Some(c)
    /\ cpc' = [cpc EXCEPT ![c] = "hold"]
    /\ UNCHANGED <<config, last_alarm_trigger, disk, lock_readers, clock, sup,
                   proc, creq, resp, last_save_ok>>
    /\ UNCHANGED schedVars
    /\ UNCHANGED <<serial, stillReads, lastOutcome, invThis, ticked, dueAll,
                   busy>>
    /\ UNCHANGED pureVars

\* What a failed std::fs::write leaves in the file: the old content (the
\* file could not be opened) or a truncated one.
Truncated == MkConfig(<< >>)

\* save_config reporting Ok whether or not the file was written.
save_config_quiet(cfg, file) ==
    {[ok |-> TRUE, file |-> cfg], [ok |-> TRUE, file |-> file]}

\* AppState::save_config / AlarmConfig::save for the Config cfg: the file
\* afterwards and whether the write succeeded.
save_config(cfg, file) ==
    {[ok |-> TRUE, file |-> cfg], [ok |-> FALSE, file |-> file]}

\* The write guard dropped as soon as the Config is mutated.
GuardReleasedBeforeSave(guard) == NoneOpt

\* state_guard between the AppState mutator and save_config: nothing drops
\* it, the handler still holds it.
GuardDuringSave(guard) == guard

\* The status of a mutator's success answer.
OkCode(op) ==
    CASE op = "create" -> 201
      [] op = "delete" -> 204
      [] OTHER -> 200

\* A mutator under the write guard up to its save_config call: r is the
\* result of the AppState mutator.  An index out of range is answered 404
\* and the guard dropped with the return.
Mutate(c, r, rs) ==
    /\ proc = "up" /\ cpc[c] = "hold"
    /\ IF ~r.ok
       THEN /\ resp' = 404
            /\ lock_writer' = IF lock_writer = Some(c) THEN NoneOpt
                                                       ELSE lock_writer
            /\ cpc' = [cpc EXCEPT ![c] = "done"]
            /\ creq' = [creq EXCEPT ![c] = NoReq]
            /\ UNCHANGED <<config, serial, dueAll>>
       ELSE /\ config' = r.cfg
            /\ serial' = rs.cfg
            /\ dueAll' = (dueAll /\ ExistsDue(r.cfg.alarms, clock))
            /\ lock_writer' = GuardDuringSave(lock_writer)
            /\ cpc' = [cpc EXCEPT ![c] = "save"]
            /\ UNCHANGED <<creq, resp>>
    /\ UNCHANGED <<last_alarm_trigger, disk, lock_readers, clock, sup, proc,
                   last_save_ok>>
    /\ UNCHANGED schedVars
    /\ UNCHANGED <<stillReads, lastOutcome, invThis, ticked, busy>>
    /\ UNCHANGED pureVars

\* routes::create_alarm, lines 59-60.
CreateApply(c) ==
    /\ creq[c].op = "create"
    /\ Mutate(c, [ok |-> TRUE, cfg |-> add_alarm(config, creq[c].alarm)],
                 [ok |-> TRUE, cfg |-> add_alarm(serial, creq[c].alarm)])

\* routes::update_alarm, lines 88-95.
UpdateApply(c) ==
    /\ creq[c].op = "update"
    /\ Mutate(c, update_alarm(config, creq[c].index, creq[c].alarm),
                 update_alarm(serial, creq[c].index, creq[c].alarm))

\* routes::delete_alarm, lines 114-121.
DeleteApply(c) ==
    /\ creq[c].op = "delete"
    /\ Mutate(c, delete_alarm(config, creq[c].index),
                 delete_alarm(serial, creq[c].index))

\* routes::toggle_alarm, lines 140-150.
ToggleApply(c) ==
    /\ creq[c].op = "toggle"
    /\ Mutate(c, toggle_alarm(config, creq[c].index),
                 toggle_alarm(serial, creq[c].index))

\* The save_config call of a mutator and its answer (create_alarm, lines
\* 62-71, and the same in the other three): the whole Config is written,
\* and state_guard is dropped when the handler returns.
Persist(c) ==
    /\ proc = "up" /\ cpc[c] = "save"
    /\ \E w \in save_config(config, disk) :
          /\ disk' = w.file
          /\ resp' = IF w.ok THEN OkCode(creq[c].op) ELSE 500
          /\ last_save_ok' = w.ok
    /\ lock_writer' = IF lock_writer = Some(c) THEN NoneOpt ELSE lock_writer
    /\ cpc' = [cpc EXCEPT ![c] = "done"]
    /\ creq' = [creq EXCEPT ![c] = NoReq]
    /\ UNCHANGED <<config, last_alarm_trigger, lock_readers, clock, sup, proc>>
    /\ UNCHANGED schedVars
    /\ UNCHANGED <<serial, stillReads, lastOutcome, invThis, ticked, dueAll,
                   busy>>
    /\ UNCHANGED pureVars

\* An API reader (list_alarms, get_alarm, get_status, the auth middleware)
\* takes a read guard ...
ReadAcquire ==
    /\ proc = "up"
    /\ lock_writer = NoneOpt /\ lock_readers = 0
    /\ lock_readers' = 1
    /\ UNCHANGED <<config, last_alarm_trigger, disk, lock_writer, clock, sup,
                   proc>>
    /\ UNCHANGED schedVars
    /\ UNCHANGED apiVars
    /\ UNCHANGED <<serial, stillReads, lastOutcome, invThis, ticked, dueAll,
                   busy>>
    /\ UNCHANGED pureVars

\* ... and the last of them drops it.
ReadRelease ==
    /\ proc = "up"
    /\ lock_readers > 0
    /\ lock_readers' = 0
    /\ UNCHANGED <<config, last_alarm_trigger, disk, lock_writer, clock, sup,
                   proc>>
    /\ UNCHANGED schedVars
    /\ UNCHANGED apiVars
    /\ UNCHANGED <<serial, stillReads, lastOutcome, invThis, ticked, dueAll,
                   busy>>
    /\ UNCHANGED pureVars

\* -------------------------------------------------------- specifications
Scheduler ==
    \/ SchedStart
    \/ Tick
    \/ Snapshot
    \/ PlayOk
    \/ PlayErr
    \/ PlayPanic
    \/ Sleep

Api ==
    \/ \E c \in Clients : CreateRequest(c)
    \/ \E c \in Clients : UpdateRequest(c)
    \/ \E c \in Clients : DeleteRequest(c)
    \/ \E c \in Clients : ToggleRequest(c)
    \/ \E c \in Clients : AcquireWrite(c)
    \/ \E c \in Clients : CreateApply(c)
    \/ \E c \in Clients : UpdateApply(c)
    \/ \E c \in Clients : DeleteApply(c)
    \/ \E c \in Clients : ToggleApply(c)
    \/ \E c \in Clients : Persist(c)
    \/ ReadAcquire
    \/ ReadRelease

Next == Scheduler \/ Api \/ ClockAdvance

Spec == Init /\ [][Next]_vars

\* ---------------------------------------------- the handlers on their own
\* The Config files the handlers are started on: those of InitConfigs and
\* one with three alarms, so that an index has alarms on both sides.
ApiInitConfigs == InitConfigs \cup {MkConfig(<<AlarmB, AlarmA, AlarmE>>)}

ApiInit ==
    /\ \E cfg \in ApiInitConfigs : InitState(cfg)
    /\ p_days = <<>>
    /\ p_weekday = 0
    /\ p_result = NoneOpt

\* The API with the scheduler task and the clock standing still.
ApiNext ==
    \/ \E c \in Clients : CreateAnyRequest(c)
    \/ \E c \in Clients : UpdateAnyRequest(c)
    \/ \E c \in Clients : DeleteRequest(c)
    \/ \E c \in Clients : ToggleRequest(c)
    \/ \E c \in Clients : AcquireWrite(c)
    \/ \E c \in Clients : CreateApply(c)
    \/ \E c \in Clients : UpdateApply(c)
    \/ \E c \in Clients : DeleteApply(c)
    \/ \E c \in Clients : ToggleApply(c)
    \/ \E c \in Clients : Persist(c)
    \/ ReadAcquire
    \/ ReadRelease

ApiSpec == ApiInit /\ [][ApiNext]_vars

\* ------------------------------------------- should_play_on on its own
TagMon == <<"M", "o", "n">>

TagMONUpper == <<"M", "O", "N">>

TagMonday == <<"M", "o", "n", "d", "a", "y">>

TagMondayLower == <<"m", "o", "n", "d", "a", "y">>

TagTue == <<"T", "u", "e">>

TagSunLower == <<"s", "u", "n">>

TagSunday == <<"S", "u", "n", "d", "a", "y">>

TagMo == <<"M", "o">>

DayTags == {TagMon, TagMONUpper, TagMonday, TagMondayLower, TagTue,
            TagSunLower, TagSunday, TagMo}

\* Longest days list should_play_on is applied to.
MaxTags == 2

TagLists == UNION {[1..n -> DayTags] : n \in 0..MaxTags}

PredInit ==
    /\ InitState(MkConfig(<<>>))
    /\ p_days \in TagLists
    /\ p_weekday \in Weekdays
    /\ p_result = NoneOpt

\* alarm.should_play_on(weekday) for an alarm with the days p_days.
ShouldPlayOn ==
    /\ p_result = NoneOpt
    /\ p_result' = Some(should_play_on(p_days, p_weekday))
    /\ UNCHANGED <<config, last_alarm_trigger, disk, lock_writer, lock_readers,
                   clock, sup, proc>>
    /\ UNCHANGED schedVars
    /\ UNCHANGED apiVars
    /\ UNCHANGED <<serial, stillReads, lastOutcome, invThis, ticked, dueAll,
                   busy, p_days, p_weekday>>

PredNext == ShouldPlayOn

PredSpec == PredInit /\ [][PredNext]_vars

\* ================================================================ claims
\* The alarms of list that are due at clock reading t.
DueSet(list, t) ==
    {i \in 1..Len(list) : is_due(list[i], Weekday(t), HourMinute(t))}

\* C1: after a playback invocation for minute (h, m) has returned, with
\* success or with an error, no further invocation is made while the clock
\* still reads (h, m).
C1_OncePerMinute == stillReads => pc # "playing"

\* A playback returned Ok, the clock still reads its minute, an alarm is
\* still due and the loop has come round to its next tick.
C1_Witness ==
    /\ stillReads /\ lastOutcome = "ok" /\ pc = "tick"
    /\ ExistsDue(config.alarms, clock)

\* C2: when several alarms of the snapshot are due in one tick, the one
\* invocation of that minute is for the due alarm that comes first in the
\* list, and no second invocation is made for that minute whatever the
\* first one returns.
C2_FirstDueOnly ==
    /\ invThis <= 1
    /\ pc = "playing" =>
          /\ fidx \in DueSet(alarms, now)
          /\ \A j \in DueSet(alarms, now) : fidx <= j

\* Playback is being awaited for a snapshot in which two alarms are due.
C2_Witness ==
    /\ pc = "playing"
    /\ Cardinality(DueSet(alarms, now)) >= 2

\* C3: whenever the clock passes through a minute in which an enabled alarm
\* of the Config is due, and the scheduler is running and was not awaiting
\* an earlier playback when the minute began, a playback invocation is made
\* for that minute.
C3_Recurring ==
    [][(clock' # clock /\ Alive /\ dueAll /\ ~busy)
          => (now = clock /\ invThis >= 1)]_vars

\* C4: after a playback invocation that failed, the next minute in which an
\* alarm is due sees another playback invocation.
C4_FailureNotSticky ==
    [][(clock' # clock /\ Alive /\ dueAll /\ ~busy /\ lastOutcome = "err")
          => (now = clock /\ invThis >= 1)]_vars

\* C5: playback is invoked only for an alarm that, in the snapshot of the
\* tick, is enabled and whose parsed hour and minute equal the hour and
\* minute of the tick's clock reading.
C5_ExactMinute ==
    pc = "playing" =>
       /\ alarms[fidx].enabled
       /\ parse_time(alarms[fidx].time) # ErrTime
       /\ parse_time(alarms[fidx].time)[1] = HourMinute(now)[1]
       /\ parse_time(alarms[fidx].time)[2] = HourMinute(now)[2]

\* Playback is being awaited while the snapshot holds, before the alarm
\* played, an enabled alarm of this weekday set one minute after the clock
\* reading.
C5_Witness ==
    /\ pc = "playing"
    /\ \E j \in 1..(fidx - 1) :
          /\ alarms[j].enabled
          /\ should_play_on(alarms[j].days, Weekday(now))
          /\ parse_time(alarms[j].time) =
                <<HourMinute(now)[1], HourMinute(now)[2] + 1>>

\* The full English name of a weekday and its three-letter abbreviation.
WeekdayFullName(w) ==
    CASE w = 0 -> <<"M", "o", "n", "d", "a", "y">>
      [] w = 1 -> <<"T", "u", "e", "s", "d", "a", "y">>
      [] w = 2 -> <<"W", "e", "d", "n", "e", "s", "d", "a", "y">>
      [] w = 3 -> <<"T", "h", "u", "r", "s", "d", "a", "y">>
      [] w = 4 -> <<"F", "r", "i", "d", "a", "y">>
      [] w = 5 -> <<"S", "a", "t", "u", "r", "d", "a", "y">>
      [] w = 6 -> <<"S", "u", "n", "d", "a", "y">>

WeekdayAbbrev(w) == SubSeq(WeekdayFullName(w), 1, 3)

\* C6: an alarm with empty days plays on every weekday; one with non-empty
\* days plays on weekday W iff days holds, compared case-insensitively, the
\* full name of W or its three-letter abbreviation.
C6_WeekdayMatch ==
    p_result # NoneOpt =>
       p_result[1] =
          (\/ p_days = <<>>
           \/ \E i \in 1..Len(p_days) :
                 \/ eq_ignore_ascii_case(p_days[i], WeekdayFullName(p_weekday))
                 \/ eq_ignore_ascii_case(p_days[i], WeekdayAbbrev(p_weekday)))

\* C7: a playback invocation that returned an error leaves the scheduler
\* loop running, and no second invocation is made until the clock minute
\* changes.
C7_ErrorContinues ==
    lastOutcome = "err" =>
       /\ Alive
       /\ pc \in {"sleep", "tick", "read", "playing"}
       /\ stillReads => pc # "playing"

\* A playback returned Err, the clock still reads its minute, an alarm is
\* still due and the loop has come round to its next tick.
C7_Witness ==
    /\ stillReads /\ lastOutcome = "err" /\ pc = "tick"
    /\ ExistsDue(config.alarms, clock)

\* C9: a panic of the scheduler loop is caught by the supervisor: the
\* process stays up and keeps a scheduler.
C9_PanicCaught == lastOutcome = "panic" => (proc = "up" /\ sup = "running")

\* C10: the in-memory Config is the result of applying the successful
\* mutators one after another in the order they took the write guard; the
\* scheduler's last-trigger write does not change it.
C10_NoLostEdits == config = serial

\* Both mutator requests have been answered, the Config differs from the
\* snapshot the scheduler played from, and the scheduler has recorded the
\* trigger of that snapshot's alarm.
C10_Witness ==
    /\ \A c \in Clients : cpc[c] = "done"
    /\ pc = "sleep" /\ lastOutcome = "ok" /\ fidx # 0
    /\ last_alarm_trigger = Some(<<alarms[fidx].name, now>>)
    /\ config.alarms # alarms
    /\ config \notin InitConfigs

\* ------------------------------------------------------ the API handlers
\* Client c's handler calls its AppState mutator in this step, holding the
\* write guard.
Mutates(c) == cpc[c] = "hold" /\ cpc'[c] # "hold"

\* Client c's handler calls save_config, answers and returns in this step.
Saves(c) == cpc[c] = "save" /\ cpc'[c] # "save"

\* What the AppState mutator of request req makes of the Config cfg.
Mutated(cfg, req) ==
    CASE req.op = "create" -> [ok |-> TRUE, cfg |-> add_alarm(cfg, req.alarm)]
      [] req.op = "update" -> update_alarm(cfg, req.index, req.alarm)
      [] req.op = "delete" -> delete_alarm(cfg, req.index)
      [] req.op = "toggle" -> toggle_alarm(cfg, req.index)

\* C11: a delete at a valid index k removes exactly the alarm at k: the
\* list is one shorter, every alarm formerly at an index i > k is at i - 1,
\* and every alarm at an index i < k keeps its index.
C11_DeleteShifts ==
    [][\A c \in Clients :
          (Mutates(c) /\ creq[c].op = "delete"
             /\ creq[c].index < Len(config.alarms))
          => LET k == creq[c].index + 1
                 old == config.alarms
                 new == config'.alarms
             IN  /\ Len(new) = Len(old) - 1
                 /\ \A i \in 1..Len(old) :
                       /\ i < k => new[i] = old[i]
                       /\ i > k => new[i - 1] = old[i]]_vars

\* A delete has been answered 204 and has taken the middle one of three
\* alarms: the first is where it was and the third is now second.
C11_Witness == resp = 204 /\ config.alarms = <<AlarmB, AlarmE>>

\* C12: a toggle at a valid index k flips the enabled field of alarm k and
\* changes nothing else of the Config; a second toggle at k gives the
\* original Config back.
C12_ToggleOnlyEnabled ==
    [][\A c \in Clients :
          (Mutates(c) /\ creq[c].op = "toggle"
             /\ creq[c].index < Len(config.alarms))
          => LET k == creq[c].index + 1
                 old == config.alarms
                 new == config'.alarms
             IN  /\ Len(new) = Len(old)
                 /\ new[k].enabled = ~old[k].enabled
                 /\ new[k].name = old[k].name
                 /\ new[k].time = old[k].time
                 /\ new[k].days = old[k].days
                 /\ \A i \in 1..Len(old) : i # k => new[i] = old[i]
                 /\ config'.audio_device = config.audio_device
                 /\ toggle_alarm(config', creq[c].index).cfg = config]_vars

\* Both requests have been answered, the last with 200, and the Config is
\* the one the process started on: an alarm was toggled and toggled back.
C12_Witness ==
    /\ \A c \in Clients : cpc[c] = "done"
    /\ resp = 200
    /\ config \in ApiInitConfigs

\* The time string is hh:mm with an hour in 0..23 and a minute in 0..59.
ValidTimeText(t) ==
    LET parts == Split(t)
    IN  /\ Len(parts) = 2
        /\ ParseU32(parts[1]) \in 0..23
        /\ ParseU32(parts[2]) \in 0..59

\* C13: a request is answered before the write guard is requested only with
\* 400 and with the Config, the file and the guard untouched, and no create
\* or update whose time is not a valid hh:mm goes on to request the guard.
C13_BadTimeRejected ==
    [][\A c \in Clients :
          (cpc[c] = "idle" /\ cpc'[c] # "idle")
          => IF cpc'[c] = "done"
             THEN /\ resp' = 400
                  /\ config' = config
                  /\ disk' = disk
                  /\ lock_writer' = lock_writer
             ELSE /\ cpc'[c] = "wait"
                  /\ creq'[c].op \in {"create", "update"}
                        => ValidTimeText(creq'[c].alarm.time)]_vars

\* A request has been answered 400 while another handler holds the write
\* guard.
C13_Witness ==
    /\ resp = 400
    /\ \E c \in Clients : cpc[c] = "done"
    /\ \E c \in Clients : cpc[c] = "hold"

\* C14: an update, delete or toggle at an index at or beyond the length of
\* the list is answered 404 and changes neither the Config nor the file.
C14_IndexNotFound ==
    [][\A c \in Clients :
          (Mutates(c) /\ creq[c].op \in {"update", "delete", "toggle"}
             /\ creq[c].index >= Len(config.alarms))
          => /\ cpc'[c] = "done"
             /\ resp' = 404
             /\ config' = config
             /\ disk' = disk]_vars

\* A request has been answered 404.
C14_Witness == resp = 404 /\ \E c \in Clients : cpc[c] = "done"

\* C15: when the mutator of a request succeeds, the Config in memory is the
\* mutated one whatever the write to the file does; the answer is 500
\* exactly when the write failed, and then the file does not hold the
\* mutation; on a success answer the file holds the whole Config.
C15_SaveFailureKeepsMemory ==
    [][\A c \in Clients :
          /\ (Mutates(c) /\ Mutated(config, creq[c]).ok)
             => /\ config' = Mutated(config, creq[c]).cfg
                /\ cpc'[c] = "save"
          /\ Saves(c)
             => /\ config' = config
                /\ cpc'[c] = "done"
                /\ resp' \in {200, 201, 204, 500}
                /\ resp' = 500 => disk' \in {disk, Truncated}
                /\ resp' # 500 => disk' = config']_vars

\* A request has been answered 500 and the Config in memory differs from the
\* file.
C15_Witness == resp = 500 /\ disk # config /\ disk \in ApiInitConfigs

\* C16: every alarm of the in-memory Config has a non-empty name, create and
\* update rejecting an empty name before they change anything.
C16_NamesNonEmpty ==
    \A i \in 1..Len(config.alarms) : config.alarms[i].name # ""

\* The tag is the name of a weekday or its three-letter abbreviation, in
\* any letter case.
IsWeekdayTag(tag) ==
    \E w \in Weekdays :
       \/ eq_ignore_ascii_case(tag, WeekdayFullName(w))
       \/ eq_ignore_ascii_case(tag, WeekdayAbbrev(w))

\* C17: no alarm with a malformed weekday tag is in the in-memory Config,
\* create and update rejecting such a days list before they change anything.
C17_TagsWellFormed ==
    \A i \in 1..Len(config.alarms) :
       \A j \in 1..Len(config.alarms[i].days) :
          IsWeekdayTag(config.alarms[i].days[j])

\* C18: within one clock minute the scheduler goes on to take the snapshot
\* and evaluate the alarm list at most once, whether or not an alarm was
\* due: a tick that finds an earlier tick has read the clock in this minute
\* sleeps.  (Ticks skip or evaluate as the marker says and the marker changes
\* only in an evaluation, so a later tick of a minute evaluates only after
\* an earlier one did.)
C18_EvaluateOncePerMinute ==
    [][(pc = "tick" /\ pc' = "read") => ~ticked]_vars

\* C19: when a playback returns Ok the scheduler tries the write guard once:
\* with no reader and no writer holding the lock, the last trigger becomes
\* the fired alarm's name and the tick's clock reading; otherwise it is left
\* as it was; either way the loop goes on to its sleep.
C19_BestEffortTrigger ==
    [][(pc = "playing" /\ pc' # "playing" /\ lastOutcome' = "ok")
          => /\ pc' = "sleep"
             /\ IF lock_writer = NoneOpt /\ lock_readers = 0
                THEN last_alarm_trigger' = Some(<<alarms[fidx].name, now>>)
                ELSE last_alarm_trigger' = last_alarm_trigger]_vars

\* A playback has returned Ok while a guard was held: the loop has gone on
\* to its sleep, the guard is still held and no trigger was ever recorded.
C19_Witness ==
    /\ pc = "sleep" /\ lastOutcome = "ok" /\ fidx # 0
    /\ lock_writer # NoneOpt \/ lock_readers > 0
    /\ last_alarm_trigger = NoneOpt

\* A handler holding the write guard can return, a reader can drop its
\* guard, and a free lock can be taken by whoever waits for it.
NoLockDeadlock ==
    proc = "up" =>
       /\ \A c \in Clients :
             lock_writer = Some(c) =>
                ENABLED (\/ CreateApply(c) \/ UpdateApply(c)
                         \/ DeleteApply(c) \/ ToggleApply(c)
                         \/ Persist(c))
       /\ lock_readers > 0 => ENABLED ReadRelease
       /\ \A c \in Clients :
             (cpc[c] = "wait" /\ lock_writer = NoneOpt /\ lock_readers = 0)
                => ENABLED AcquireWrite(c)
       /\ (Alive /\ pc = "read" /\ lock_writer = NoneOpt) => ENABLED Snapshot

\* C20: the scheduler holds no guard of the shared state while it awaits a
\* playback or sleeps, so the snapshot read and the last-trigger write are
\* separate acquisitions, and no state is a deadlock on the lock.
C20_NoGuardAcrossPlayback ==
    /\ pc \in {"playing", "sleep", "tick"} => sched_guard = "none"
    /\ NoLockDeadlock

\* A handler holds the write guard while the scheduler awaits the playback
\* of an alarm of the snapshot it took before.
C20_Witness ==
    /\ pc = "playing"
    /\ \E c \in Clients : lock_writer = Some(c) /\ cpc[c] = "hold"

\* C21: at most one playback call of the scheduler is outstanding at any
\* time, and while one is outstanding the loop is at that call: it reads no
\* clock, takes no snapshot and invokes nothing until the call has returned.
C21_AwaitsPlayback ==
    /\ in_flight <= 1
    /\ in_flight = 1 => pc = "playing"

\* A playback call is still outstanding after the clock has moved on to
\* another minute in which an alarm of the Config is due.
C21_Witness ==
    /\ in_flight = 1 /\ pc = "playing"
    /\ clock # now
    /\ ExistsDue(config.alarms, clock)

\* The alarms of list that are enabled, play on the weekday of clock
\* reading t and have a well-formed time equal to the hour and minute of t.
DueWellFormed(list, t) ==
    {i \in 1..Len(list) :
        /\ list[i].enabled
        /\ should_play_on(list[i].days, Weekday(t))
        /\ ValidTimeText(list[i].time)
        /\ parse_time(list[i].time) = HourMinute(t)}

\* C22 as claimed: when a mutator makes its persistence write it no longer
\* holds the exclusive lock.
C22_ReleasedBeforeSave ==
    \A c \in Clients : cpc[c] = "save" => lock_writer # Some(c)

\* C22: each mutator validates its input without the lock, then takes the
\* exclusive lock, mutates the in-memory Config under it, persists the
\* whole Config while it still holds the lock, and releases the lock only
\* when it returns; neither the Config nor the file changes in any other
\* step.
C22_LockHeldThroughSave ==
    [][/\ \A c \in Clients :
             /\ (cpc[c] = "idle" /\ cpc'[c] # "idle")
                => /\ cpc'[c] \in {"wait", "done"}
                   /\ lock_writer' = lock_writer
                   /\ config' = config /\ disk' = disk
             /\ (cpc[c] = "wait" /\ cpc'[c] # "wait")
                => /\ cpc'[c] = "hold"
                   /\ lock_writer = NoneOpt /\ lock_writer' = Some(c)
                   /\ config' = config /\ disk' = disk
             /\ Mutates(c)
                => /\ lock_writer = Some(c)
                   /\ disk' = disk
                   /\ IF Mutated(config, creq[c]).ok
                      THEN /\ cpc'[c] = "save"
                           /\ lock_writer' = Some(c)
                      ELSE /\ cpc'[c] = "done"
                           /\ config' = config
                           /\ lock_writer' = NoneOpt
             /\ Saves(c)
                => /\ lock_writer = Some(c)
                   /\ config' = config
                   /\ disk' \in {disk, config, Truncated}
                   /\ cpc'[c] = "done"
                   /\ lock_writer' = NoneOpt
       /\ (config' # config \/ disk' # disk)
             => \E c \in Clients : Mutates(c) \/ Saves(c)]_vars

\* A mutator is about to write the file, which does not hold its mutation
\* yet; it holds the write guard, and the other mutator waits for it.
C22_Witness ==
    \E c, d \in Clients :
       /\ cpc[c] = "save" /\ lock_writer = Some(c)
       /\ disk # config
       /\ cpc[d] = "wait"

\* C24: whenever no mutator holds the write guard and the last write of the
\* file succeeded, the file holds the in-memory Config; once every mutator
\* has returned, the file holds the mutations in the order they were made
\* in memory.
C24_PersistedFollowsMemory ==
    /\ (lock_writer = NoneOpt /\ last_save_ok) => disk = config
    /\ ((\A c \in Clients : cpc[c] \in {"idle", "done"}) /\ last_save_ok)
          => disk = serial

\* Both mutators have returned, the last write succeeded, and no alarm of
\* the Config is the one the process started with at its position: the
\* file holds the mutations of both.
C24_Witness ==
    /\ \A c \in Clients : cpc[c] = "done"
    /\ lock_writer = NoneOpt /\ last_save_ok
    /\ resp \in {200, 201, 204}
    /\ disk = config
    /\ Len(config.alarms) = MaxAlarms
    /\ \A cfg \in InitConfigs :
          Len(cfg.alarms) = MaxAlarms =>
             \A i \in 1..MaxAlarms : config.alarms[i] # cfg.alarms[i]

\* C23: a tick that takes its snapshot invokes playback exactly when the
\* snapshot holds an enabled, due alarm with a well-formed time, whatever
\* malformed alarms stand before it in the list; the alarm it fires has a
\* well-formed time, and the scheduler is still running after the scan.
C23_MalformedSkipped ==
    [][(pc = "read" /\ pc' # "read")
          => /\ sup' = "running" /\ proc' = "up"
             /\ IF DueWellFormed(config.alarms, now) = {}
                THEN pc' = "sleep"
                ELSE /\ pc' = "playing"
                     /\ fidx' \in DueWellFormed(config.alarms, now)
                     /\ ValidTimeText(alarms'[fidx'].time)]_vars

\* Playback is being awaited for an alarm that stands behind an enabled
\* alarm of this weekday whose time is malformed.
C23_Witness ==
    /\ pc = "playing"
    /\ \E j \in 1..(fidx - 1) :
          /\ alarms[j].enabled
          /\ should_play_on(alarms[j].days, Weekday(now))
          /\ ~ValidTimeText(alarms[j].time)

\* C25: the last-trigger record is absent at startup and changes only in
\* the step in which a playback call of the scheduler returns Ok, to the
\* fired alarm's name and the tick's clock reading: no failed playback and
\* no API request changes it; and no step of the scheduler changes the
\* Config or the file.
C25_TriggerFrame ==
    /\ last_alarm_trigger = NoneOpt
    /\ [][/\ (last_alarm_trigger' # last_alarm_trigger)
              => (/\ pc = "playing" /\ pc' = "sleep" /\ lastOutcome' = "ok"
                  /\ cpc' = cpc
                  /\ last_alarm_trigger' = Some(<<alarms[fidx].name, now>>))
          /\ (pc' # pc \/ cpc' = cpc)
              => (/\ config' = config
                  /\ disk' = disk)]_vars

\* A failed playback and an API mutator have come after a recorded trigger:
\* the record is still the one of the earlier tick.
C25_Witness ==
    /\ lastOutcome = "err" /\ pc = "sleep" /\ fidx # 0
    /\ last_alarm_trigger # NoneOpt
    /\ last_alarm_trigger[1][2] # now
    /\ config # serial \/ \E c \in Clients : cpc[c] = "done" /\ resp = 200

====
